---- MODULE Spec2Model ----
(***************************************************************************)
(* Model of 8pay_valuation_model.ipynb: the discounted-cash-flow valuation *)
(* of the 8pay token.                                                      *)
(*                                                                         *)
(* Numbers.  The notebook computes in IEEE double precision.  The model    *)
(* computes in exact rational arithmetic: a number is a record [n, d] in   *)
(* lowest terms with d > 0, and d = 0 encodes the three non-finite doubles *)
(* (n = 1: inf, n = -1: -inf, n = 0: nan).  Rounding error of the          *)
(* individual floating-point operations is therefore not modelled; the     *)
(* division by zero, the non-finite values and the conversions that raise  *)
(* on them are.  The parameters are drawn from grids on which every        *)
(* intermediate value is rational (the p-th root of 1 + rate/100 exists).  *)
(*                                                                         *)
(* Library routines.  numpy.exp is tabulated by rational approximations at *)
(* the multiples of 1/2, and integrate.quad is the trapezoid rule on the   *)
(* end points of the interval.                                             *)
(*                                                                         *)
(* Calls.  interact calls valuation once when the widgets are displayed    *)
(* and again whenever one widget changes, so every call after the first    *)
(* differs from the previous one in a single argument.  The grids also     *)
(* hold values that no widget offers (a direct call of valuation).         *)
(***************************************************************************)
EXTENDS Integers, Sequences, FiniteSets, TLC

\* ------------------------------------------------------------------ bounds
MaxHorizon == 2
MaxValue == 2
MaxCalls == 3

\* ------------------------------------------------- rational arithmetic
Abs(x) == IF x < 0 THEN -x ELSE x

Sign(x) == IF x < 0 THEN -1 ELSE IF x > 0 THEN 1 ELSE 0

RECURSIVE GCD(_, _)
GCD(a, b) == IF b = 0 THEN a ELSE GCD(b, a % b)

\* n/d in lowest terms, d # 0
Rat(n, d) ==
    LET g == GCD(Abs(n), Abs(d))
    IN  [n |-> Sign(d) * (n \div g), d |-> Abs(d) \div g]

Num(k) == [n |-> k, d |-> 1]

Inf(s) == [n |-> s, d |-> 0]

NaN == [n |-> 0, d |-> 0]

IsFinite(x) == x.d # 0

IsNaN(x) == x.d = 0 /\ x.n = 0

RNeg(x) == [n |-> -x.n, d |-> x.d]

RAdd(a, b) ==
    IF IsNaN(a) \/ IsNaN(b) THEN NaN
    ELSE IF ~IsFinite(a) /\ ~IsFinite(b) THEN (IF a.n = b.n THEN a ELSE NaN)
    ELSE IF ~IsFinite(a) THEN a
    ELSE IF ~IsFinite(b) THEN b
    ELSE LET g == GCD(a.d, b.d)
         IN  Rat(a.n * (b.d \div g) + b.n * (a.d \div g), (a.d \div g) * b.d)

RSub(a, b) == RAdd(a, RNeg(b))

RMul(a, b) ==
    IF IsNaN(a) \/ IsNaN(b) THEN NaN
    ELSE IF ~IsFinite(a) \/ ~IsFinite(b)
         THEN (IF a.n = 0 \/ b.n = 0 THEN NaN ELSE Inf(Sign(a.n) * Sign(b.n)))
    ELSE LET g1 == GCD(Abs(a.n), b.d)
             g2 == GCD(Abs(b.n), a.d)
         IN  Rat((a.n \div g1) * (b.n \div g2), (a.d \div g2) * (b.d \div g1))

\* IEEE division: x/0 is +-inf, 0/0 is nan, x/inf is 0
RDiv(a, b) ==
    IF IsNaN(a) \/ IsNaN(b) THEN NaN
    ELSE IF ~IsFinite(b) THEN (IF IsFinite(a) THEN Num(0) ELSE NaN)
    ELSE IF ~IsFinite(a) THEN Inf(a.n * (IF b.n < 0 THEN -1 ELSE 1))
    ELSE IF b.n = 0 THEN (IF a.n = 0 THEN NaN ELSE Inf(Sign(a.n)))
    ELSE RMul(a, Rat(b.d, b.n))

RLess(a, b) == a.n * b.d < b.n * a.d

\* numpy.power(x, k) for an integer exponent k >= 0
RECURSIVE IntPower(_, _)
IntPower(x, k) == IF k <= 0 THEN Num(1) ELSE RMul(x, IntPower(x, k - 1))

\* The per-period rates the grid of parameters can produce.
RootCandidates == {Num(0), Num(1), Rat(3, 2), Num(2)}

HasRoot(x, p) == p = 1 \/ \E y \in RootCandidates : IntPower(y, p) = x

\* numpy.power(x, 1/p) for x >= 0 and a positive integer p
Root(x, p) == IF p = 1 THEN x ELSE CHOOSE y \in RootCandidates : IntPower(y, p) = x

\* rounding towards minus infinity
RoundDown(x) == x.n \div x.d

\* numpy.round: round half to even, then int()
Round(x) ==
    LET fl == x.n \div x.d
        rem == x.n - fl * x.d
    IN  IF 2 * rem < x.d THEN fl
        ELSE IF 2 * rem > x.d THEN fl + 1
        ELSE IF fl % 2 = 0 THEN fl ELSE fl + 1

\* numpy.exp at the multiples of 1/2: rational approximations of e^(k/2),
\* k = 0..8; exp(-x) = 1/exp(x).
ExpTable ==
    [k \in 0..8 |->
        CASE k = 0 -> Num(1)
          [] k = 1 -> Rat(5, 3)
          [] k = 2 -> Num(3)
          [] k = 3 -> Num(4)
          [] k = 4 -> Num(7)
          [] k = 5 -> Num(11)
          [] k = 6 -> Num(19)
          [] k = 7 -> Num(29)
          [] k = 8 -> Num(59)]

Exp(x) ==
    LET k == (2 * x.n) \div x.d
    IN  IF k >= 0 THEN ExpTable[k] ELSE RDiv(Num(1), ExpTable[-k])

\* ------------------------------------------------------------- the code
logistic(t, mid, slope, limit) ==
    RDiv(Num(limit), RAdd(Num(1), Exp(RMul(Num(-slope), RSub(t, Num(mid))))))

\* integrate.quad(func, a, b)[0]: the quadrature is modelled by the
\* trapezoid rule, whose nodes are the two end points of the interval; an
\* integrand is a function on the nodes.
nodes(interval) == {interval[1], interval[2]}

average(func, interval) ==
    RMul(RMul(RSub(interval[2], interval[1]), Rat(1, 2)),
         RAdd(func[interval[1]], func[interval[2]]))

zeros(n) == [i \in 0..(n - 1) |-> Num(0)]

Len0(arr) == Cardinality(DOMAIN arr)

\* numpy.sum
RECURSIVE SumUpTo(_, _)
SumUpTo(arr, k) == IF k < 0 THEN Num(0) ELSE RAdd(SumUpTo(arr, k - 1), arr[k])

sum(arr) == SumUpTo(arr, Len0(arr) - 1)

\* ------------------------------------------------------------- the state
VARIABLES
    args,       \* the eight arguments of the latest call of valuation
    outcome,    \* "ok", or the exception the call ended in
    series,     \* the arrays the call plotted (empty when it raised)
    printed,    \* <<C_<=h, C_>h, C>> as printed (empty when it raised)
    returned,   \* what the call returned to its caller (<<>> is None)
    first,      \* history: arguments and results of the first call
    calls       \* history: the number of calls so far, counted up to MaxCalls

vars == <<args, outcome, series, printed, returned, first, calls>>

NoSeries ==
    [timeAxis |-> zeros(0), periodTransactionCount |-> zeros(0),
     periodTransactionVolume |-> zeros(0), periodCashflow |-> zeros(0),
     periodDiscounted |-> zeros(0)]

Raise(exception) ==
    [outcome |-> exception, series |-> NoSeries, printed |-> <<>>, returned |-> <<>>]

\* int(x) of a non-finite float
IntError(x) == IF IsNaN(x) THEN "ValueError" ELSE "OverflowError"

periodStartEndShifted(i, periodsPerYear) ==
    <<Rat(i + 1, periodsPerYear), Rat(i + 2, periodsPerYear)>>

periodStartEnd(i, periodsPerYear) ==
    <<Rat(i, periodsPerYear), Rat(i + 1, periodsPerYear)>>

\* the exponent of the discount factor of the period with 0-based index i
discountExponentFromZero(i) == i

discountExponent(i) == i + 1

\* the staker's share of the period's volume
cashflowWithoutFee(volume, stakerFee) == volume

cashflowOf(volume, stakerFee) == RMul(volume, stakerFee)

\* present value of a cash flow
discountByMultiplying(cashflow, factor) == RMul(cashflow, factor)

discount(cashflow, factor) == RDiv(cashflow, factor)

\* one iteration of the for loop
LoopBody(st, i, a, discountRate, stakerFee) ==
    LET interval == periodStartEnd(i, a.periodsPerYear)
        transactionCount == [t \in nodes(interval) |-> logistic(t, a.mid, a.slope, a.limit)]
        transactionValue == [t \in nodes(interval) |-> Num(a.avgTransactionValue)]
        volumeRate == [t \in nodes(interval) |-> RMul(transactionCount[t], transactionValue[t])]
        count == average(transactionCount, interval)
        volume == average(volumeRate, interval)
        cashflow == cashflowOf(volume, stakerFee)
        discounted == discount(cashflow, IntPower(discountRate, discountExponent(i)))
    IN  [timeAxis |-> [st.timeAxis EXCEPT ![i] = Rat(i, a.periodsPerYear)],
         periodTransactionCount |-> [st.periodTransactionCount EXCEPT ![i] = count],
         periodTransactionVolume |-> [st.periodTransactionVolume EXCEPT ![i] = volume],
         periodCashflow |-> [st.periodCashflow EXCEPT ![i] = cashflow],
         periodDiscounted |-> [st.periodDiscounted EXCEPT ![i] = discounted]]

RECURSIVE Loop(_, _, _, _, _, _)
Loop(st, i, n, a, discountRate, stakerFee) ==
    IF i >= n THEN st
    ELSE Loop(LoopBody(st, i, a, discountRate, stakerFee), i + 1, n, a, discountRate, stakerFee)

effectiveRate(a) ==
    Root(RAdd(Num(1), Rat(a.discountRate, 100)), a.periodsPerYear)

\* the tail discounted by one more period
horizonQuotientShifted(last, discountRate) ==
    RDiv(last, RMul(RMul(discountRate, RSub(discountRate, Num(1))), Num(1000)))

\* the quotient that line 167 rounds
horizonQuotient(last, discountRate) ==
    RDiv(last, RMul(RSub(discountRate, Num(1)), Num(1000)))

report(summedDiscounted, discountedHorizon) ==
    <<summedDiscounted, discountedHorizon, summedDiscounted + discountedHorizon>>

\* returning the aggregates to the caller
returnAggregates(summedDiscounted, discountedHorizon) ==
    <<summedDiscounted, discountedHorizon, summedDiscounted + discountedHorizon>>

\* valuation has no return statement
returnValue(summedDiscounted, discountedHorizon) == <<>>

\* lines 168-182: the plots and the three printed lines
display(st, summedDiscounted, discountedHorizon) ==
    [outcome |-> "ok",
     series |-> st,
     printed |-> report(summedDiscounted, discountedHorizon),
     returned |-> returnValue(summedDiscounted, discountedHorizon)]

\* line 167: discountedHorizon
horizon(st, summedDiscounted, postQ) ==
    IF ~IsFinite(postQ) THEN Raise(IntError(postQ))
    ELSE display(st, summedDiscounted, Round(postQ) * 1000)

\* line 166: summedDiscounted, then periodDiscounted[-1]
summed(st, preQ, discountRate) ==
    IF ~IsFinite(preQ) THEN Raise(IntError(preQ))
    ELSE IF Len0(st.periodDiscounted) = 0 THEN Raise("IndexError")
    ELSE horizon(st, Round(preQ) * 1000,
                 horizonQuotient(st.periodDiscounted[Len0(st.periodDiscounted) - 1],
                                 discountRate))

\* lines 166-182, after the loop
afterLoop(st, discountRate) ==
    summed(st, RDiv(sum(st.periodDiscounted), Num(1000)), discountRate)

\* lines 150-164: the arrays and the loop
run(a, n, discountRate) ==
    afterLoop(Loop([timeAxis |-> zeros(n), periodTransactionCount |-> zeros(n),
                    periodTransactionVolume |-> zeros(n), periodCashflow |-> zeros(n),
                    periodDiscounted |-> zeros(n)],
                   0, n, a, discountRate, Rat(a.stakerFee, 100)),
              discountRate)

valuation(a) ==
    IF a.periodsPerYear = 0 THEN Raise("ZeroDivisionError")
    ELSE IF a.periodsPerYear * a.timeHorizon < 0 THEN Raise("ValueError")
    ELSE run(a, a.periodsPerYear * a.timeHorizon, effectiveRate(a))

\* ------------------------------------------------------- argument grids
HorizonValues == 0..MaxHorizon
PeriodValues == {0, 1, 2}
RateValues == {-100, 0, 125, 300}
FeeValues == {50, 150}
MidValues == {0, 1}
SlopeValues == {0, 1}
LimitValues == {-48000, 0, 48000}
ValueValues == 1..MaxValue

\* the arguments whose per-period rate is rational
Representable(a) ==
    a.periodsPerYear > 0 =>
        HasRoot(RAdd(Num(1), Rat(a.discountRate, 100)), a.periodsPerYear)

DefaultArgs ==
    [timeHorizon |-> 1, periodsPerYear |-> 2, discountRate |-> 125, stakerFee |-> 50,
     mid |-> 1, slope |-> 1, limit |-> 48000, avgTransactionValue |-> 1]

\* ---------------------------------------------------------- the actions
\* a call that keeps the arrays of the previous call when they are longer
CallKeepingArrays(a) ==
    /\ Representable(a)
    /\ \E r \in {valuation(a)} :
        /\ args' = a
        /\ outcome' = r.outcome
        /\ series' = IF Len0(series.periodDiscounted) > Len0(r.series.periodDiscounted)
                      THEN series ELSE r.series
        /\ printed' = r.printed
        /\ returned' = r.returned
        /\ calls' = IF calls < MaxCalls THEN calls + 1 ELSE calls
        /\ UNCHANGED first

\* valuation(a) is called and its output replaces the displayed one
Call(a) ==
    /\ Representable(a)
    /\ \E r \in {valuation(a)} :
        /\ args' = a
        /\ outcome' = r.outcome
        /\ series' = r.series
        /\ printed' = r.printed
        /\ returned' = r.returned
        /\ calls' = IF calls < MaxCalls THEN calls + 1 ELSE calls
        /\ UNCHANGED first

\* interact(valuation, ...) displays the widgets and calls valuation once
Init ==
    \E r \in {valuation(DefaultArgs)} :
        /\ args = DefaultArgs
        /\ outcome = r.outcome
        /\ series = r.series
        /\ printed = r.printed
        /\ returned = r.returned
        /\ first = [args |-> DefaultArgs, outcome |-> r.outcome, series |-> r.series,
                    printed |-> r.printed]
        /\ calls = 1

\* One argument changes and valuation is called again with all eight.
SetTimeHorizon ==
    \E v \in HorizonValues \ {args.timeHorizon} : Call([args EXCEPT !.timeHorizon = v])

SetPeriodsPerYear ==
    \E v \in PeriodValues \ {args.periodsPerYear} : Call([args EXCEPT !.periodsPerYear = v])

SetDiscountRate ==
    \E v \in RateValues \ {args.discountRate} : Call([args EXCEPT !.discountRate = v])

SetStakerFee ==
    \E v \in FeeValues \ {args.stakerFee} : Call([args EXCEPT !.stakerFee = v])

SetMid ==
    \E v \in MidValues \ {args.mid} : Call([args EXCEPT !.mid = v])

SetSlope ==
    \E v \in SlopeValues \ {args.slope} : Call([args EXCEPT !.slope = v])

SetLimit ==
    \E v \in LimitValues \ {args.limit} : Call([args EXCEPT !.limit = v])

SetAvgTransactionValue ==
    \E v \in ValueValues \ {args.avgTransactionValue} :
        Call([args EXCEPT !.avgTransactionValue = v])

Next ==
    \/ SetTimeHorizon
    \/ SetPeriodsPerYear
    \/ SetDiscountRate
    \/ SetStakerFee
    \/ SetMid
    \/ SetSlope
    \/ SetLimit
    \/ SetAvgTransactionValue

Spec == Init /\ [][Next]_vars

\* ----------------------------------------------------------- properties
hp == args.timeHorizon * args.periodsPerYear

d == effectiveRate(args)

Valid(a) ==
    /\ a.timeHorizon > 0
    /\ a.periodsPerYear > 0
    /\ a.discountRate > 0
    /\ a.stakerFee > 0 /\ a.stakerFee < 100

Invalid(a) ==
    \/ a.periodsPerYear <= 0
    \/ a.timeHorizon <= 0
    \/ a.discountRate <= -100
    \/ a.stakerFee <= 0 \/ a.stakerFee >= 100

RAbs(x) == [n |-> Abs(x.n), d |-> x.d]

RLeq(a, b) == a.n * b.d <= b.n * a.d

\* v is the multiple of 1000 nearest to x (an exact tie goes to the even multiple)
Nearest(v, x) ==
    LET dist == RAbs(RSub(x, Num(v)))
    IN  /\ v % 1000 = 0
        /\ RLeq(dist, Num(500))
        /\ dist = Num(500) => (v \div 1000) % 2 = 0

lastDiscounted == series.periodDiscounted[hp - 1]

\* the unrounded aggregates
sumPreHorizon == sum(series.periodDiscounted)

sumPostHorizon == RDiv(lastDiscounted, RSub(d, Num(1)))

\* C1 as stated: for valid parameters the post-horizon value is
\* periodDiscounted[hp] / (d * (d - 1)), reported to the nearest thousand.
C1_Original ==
    Valid(args) =>
        /\ outcome = "ok"
        /\ Nearest(printed[2], RDiv(lastDiscounted, RMul(d, RSub(d, Num(1)))))

\* C1 amended: for valid parameters the post-horizon value is
\* periodDiscounted[hp] / (d - 1), reported to the nearest thousand.
C1_Tail ==
    Valid(args) =>
        /\ outcome = "ok"
        /\ Nearest(printed[2], RDiv(lastDiscounted, RSub(d, Num(1))))

C1_Witness ==
    /\ calls >= 2
    /\ Valid(args)
    /\ outcome = "ok"
    /\ printed[2] > 0
    /\ ~Nearest(printed[2], RDiv(lastDiscounted, RMul(d, RSub(d, Num(1)))))

\* C2: a call with periodsPerYear <= 0, timeHorizon <= 0, discountRate <= -100
\* or stakerFee outside (0,100) ends in an error and reports no series and no
\* aggregate.
C2_Rejected ==
    Invalid(args) =>
        /\ outcome # "ok"
        /\ printed = <<>>
        /\ series = NoSeries

\* C3: for every period i in 1..hp, periodDiscounted[i] = periodCashflow[i] / d^i:
\* the first period is divided by d^1 and the exponent grows by one per period.
C3_Discounting ==
    outcome = "ok" =>
        /\ DOMAIN series.periodDiscounted = 0..(hp - 1)
        /\ \A i \in 1..hp :
              RMul(series.periodDiscounted[i - 1], IntPower(d, i)) = series.periodCashflow[i - 1]
        /\ RMul(series.periodDiscounted[0], d) = series.periodCashflow[0]

C3_Witness ==
    /\ outcome = "ok"
    /\ hp >= 3
    /\ d # Num(1)
    /\ series.periodCashflow[0] # Num(0)
    /\ series.periodDiscounted[2] # series.periodCashflow[2]

\* the arguments with avgTransactionValue, respectively stakerFee, doubled
DoubledValue == [args EXCEPT !.avgTransactionValue = 2 * @]

DoubledFee == [args EXCEPT !.stakerFee = 2 * @]

Twice(x) == RMul(Num(2), x)

SeriesDoubled(r) ==
    /\ r.outcome = "ok"
    /\ DOMAIN r.series.periodCashflow = DOMAIN series.periodCashflow
    /\ \A i \in DOMAIN series.periodCashflow :
          /\ r.series.periodCashflow[i] = Twice(series.periodCashflow[i])
          /\ r.series.periodDiscounted[i] = Twice(series.periodDiscounted[i])

ReportedDoubled(r) == \A k \in 1..3 : r.printed[k] = 2 * printed[k]

ReportedNearlyDoubled(r) ==
    /\ Abs(r.printed[1] - 2 * printed[1]) <= 1000
    /\ Abs(r.printed[2] - 2 * printed[2]) <= 1000
    /\ Abs(r.printed[3] - 2 * printed[3]) <= 2000

\* C4 as stated: doubling avgTransactionValue, or stakerFee, doubles every
\* periodCashflow, every periodDiscounted and the three reported aggregates.
C4_Original ==
    outcome = "ok" =>
        \A r \in {valuation(DoubledValue), valuation(DoubledFee)} :
            SeriesDoubled(r) /\ ReportedDoubled(r)

\* C4 amended: doubling avgTransactionValue, or stakerFee, doubles every
\* periodCashflow and every periodDiscounted; the reported pre- and post-horizon
\* values stay within 1000, the reported total within 2000, of the doubles.
C4_Proportional ==
    outcome = "ok" =>
        \A r \in {valuation(DoubledValue), valuation(DoubledFee)} :
            SeriesDoubled(r) /\ ReportedNearlyDoubled(r)

C4_Witness ==
    /\ outcome = "ok"
    /\ args.avgTransactionValue = 2
    /\ args.stakerFee = 50
    /\ printed[1] > 0
    /\ ~ReportedDoubled(valuation(DoubledValue))

\* the calls that differ from the latest one in a larger annual discount rate
LargerRates ==
    {a \in {[args EXCEPT !.discountRate = r2] : r2 \in RateValues} :
        a.discountRate > args.discountRate /\ Representable(a)}

\* C5 as stated: for valid parameters a larger annual discount rate gives a
\* strictly smaller pre-horizon sum of periodDiscounted.
C5_Original ==
    Valid(args) =>
        \A a \in LargerRates :
            RLess(sum(valuation(a).series.periodDiscounted), sumPreHorizon)

\* C5 amended: for valid parameters and a positive limit a larger annual
\* discount rate gives a strictly smaller pre-horizon sum of periodDiscounted.
C5_Monotone ==
    (Valid(args) /\ args.limit > 0) =>
        \A a \in LargerRates :
            RLess(sum(valuation(a).series.periodDiscounted), sumPreHorizon)

C5_Witness ==
    /\ Valid(args)
    /\ args.limit > 0
    /\ outcome = "ok"
    /\ hp >= 2
    /\ LargerRates # {}
    /\ sumPreHorizon # Num(0)

\* C6 as stated: a call with valid parameters returns the three aggregates
\* (and the series) to its caller.
C6_Original ==
    Valid(args) =>
        /\ outcome = "ok"
        /\ Len(returned) >= 3
        /\ SubSeq(returned, 1, 3) = printed

\* C6 amended: a call with valid parameters returns nothing (None); it prints
\* the three aggregates and plots the per-period series, hp entries each.
C6_PrintsAndPlots ==
    Valid(args) =>
        /\ outcome = "ok"
        /\ returned = <<>>
        /\ Len(printed) = 3
        /\ DOMAIN series.timeAxis = 0..(hp - 1)
        /\ DOMAIN series.periodTransactionCount = 0..(hp - 1)
        /\ DOMAIN series.periodCashflow = 0..(hp - 1)
        /\ DOMAIN series.periodDiscounted = 0..(hp - 1)

C6_Witness ==
    /\ calls >= 2
    /\ Valid(args)
    /\ outcome = "ok"
    /\ returned = <<>>
    /\ printed[3] > 0
    /\ hp >= 2

C8_Original ==
    outcome = "ok" =>
        /\ Nearest(printed[1], sumPreHorizon)
        /\ Nearest(printed[2], sumPostHorizon)
        /\ Nearest(printed[3], RAdd(sumPreHorizon, sumPostHorizon))

\* C8 amended: the reported pre- and post-horizon values are the unrounded
\* quantities rounded to the nearest thousand (ties to the even thousand); the
\* reported total is the sum of the two reported values, within 1000 of the
\* unrounded total.
C8_Rounding ==
    outcome = "ok" =>
        /\ Nearest(printed[1], sumPreHorizon)
        /\ Nearest(printed[2], sumPostHorizon)
        /\ printed[3] = printed[1] + printed[2]
        /\ RLeq(RAbs(RSub(RAdd(sumPreHorizon, sumPostHorizon), Num(printed[3]))), Num(1000))

C8_Witness ==
    /\ outcome = "ok"
    /\ printed[1] > 0
    /\ printed[2] > 0
    /\ ~Nearest(printed[3], RAdd(sumPreHorizon, sumPostHorizon))

\* the transaction curve of the latest call on the nodes of period i
curve(i) ==
    [t \in {Rat(i - 1, args.periodsPerYear), Rat(i, args.periodsPerYear)} |->
        logistic(t, args.mid, args.slope, args.limit)]

periodLength == Rat(1, args.periodsPerYear)

\* C9: exactly hp periods are computed; period i integrates the curve from
\* (i-1)/periodsPerYear to i/periodsPerYear, the first period starts at 0, each
\* starts where the previous one ends, the last ends at timeHorizon, and
\* periodCashflow[i] is the integral times avgTransactionValue times stakerFee/100.
C9_Periods ==
    outcome = "ok" =>
        /\ DOMAIN series.timeAxis = 0..(hp - 1)
        /\ DOMAIN series.periodCashflow = 0..(hp - 1)
        /\ DOMAIN series.periodTransactionCount = 0..(hp - 1)
        /\ series.timeAxis[0] = Num(0)
        /\ \A i \in 1..(hp - 1) :
              series.timeAxis[i] = RAdd(series.timeAxis[i - 1], periodLength)
        /\ RAdd(series.timeAxis[hp - 1], periodLength) = Num(args.timeHorizon)
        /\ \A i \in 1..hp :
              LET integral == average(curve(i), <<Rat(i - 1, args.periodsPerYear),
                                                  Rat(i, args.periodsPerYear)>>)
              IN  /\ series.timeAxis[i - 1] = Rat(i - 1, args.periodsPerYear)
                  /\ series.periodTransactionCount[i - 1] = integral
                  /\ series.periodCashflow[i - 1]
                        = RMul(RMul(integral, Num(args.avgTransactionValue)),
                               Rat(args.stakerFee, 100))

C9_Witness ==
    /\ outcome = "ok"
    /\ hp >= 3
    /\ args.slope > 0
    /\ args.limit > 0
    /\ args.stakerFee > 0
    /\ series.periodTransactionCount[0] # series.periodTransactionCount[1]
    /\ series.periodTransactionCount[1] # series.periodTransactionCount[2]

\* the arguments the widgets offer, on the grid of the model
WidgetSelectable(a) ==
    /\ a.timeHorizon \in 1..MaxHorizon
    /\ a.periodsPerYear \in {1, 2}
    /\ a.discountRate >= 0
    /\ a.stakerFee \in {50}
    /\ a.mid \in MidValues
    /\ a.slope \in SlopeValues
    /\ a.limit >= 0
    /\ a.avgTransactionValue \in 1..MaxValue

\* C10: for every combination the widgets offer, valuation runs to completion
\* and reports three non-negative values (the divisor d - 1 is never zero).
C10_Selectable ==
    WidgetSelectable(args) =>
        /\ outcome = "ok"
        /\ d # Num(1)
        /\ \A k \in 1..3 : printed[k] >= 0

====
